---- MODULE Spec2Model ----
(***************************************************************************)
(* Model of "Python/Scale Out/saphana_create_snapshot.py": one run of the  *)
(* script, from the first statement of the module-level try block (line    *)
(* 220) to the end of the process (Spec), and the functions of the script  *)
(* applied alone to drawn arguments (FnSpec).                              *)
(*                                                                         *)
(* The three external systems (the database behind hdbcli's dbapi, the     *)
(* hosts behind paramiko, the array behind purestorage) are the run's      *)
(* inputs: every call made to one of them is appended to `calls` together  *)
(* with the answer it got, and the answer is chosen nondeterministically.  *)
(*                                                                         *)
(* Python semantics that decide the control flow of this script:           *)
(*  - lines 163-164, 178-179 and 189-190: the assignment of the SQL text   *)
(*    ends on the first line (there is no backslash and no open bracket),  *)
(*    so the second line is an expression statement of its own that        *)
(*    applies unary + to a str.  Evaluating it raises TypeError.  In       *)
(*    prepare_saphana_storage_snapshot this happens at line 164, before    *)
(*    check_saphana_system_type (line 167) and before any                  *)
(*    execute_saphana_command (lines 169-172).                             *)
(*  - line 241: the handler reads the module-level name saphana_backup_id, *)
(*    which is bound only by the assignment of line 222; reading it        *)
(*    unbound raises NameError inside the handler, which nothing catches.  *)
(***************************************************************************)
EXTENDS Naturals, Sequences, FiniteSets

\* Largest number of rows the attached-storage query returns in the model.
MaxVols == 2

----------------------------------------------------------------------------
(* Module-level configuration, lines 50-61.                                *)

hostaddress0 == "SHN2.puredoes.local"
domainname == "puredoes.local"
instancenumber == "00"
port == "15"

\* A variant that passes the configured tenant port where the source has 13.
systemdb_port_tenant == "15"

\* The literal 13 of lines 169, 170, 182, 193 and 206, after str().
systemdb_port == "13"

----------------------------------------------------------------------------
(* The SQL statements, named as in the source.  A statement is identified  *)
(* by its fixed text; the timestamp and the ids spliced into it are not    *)
(* part of the identification.                                             *)

hdbsqlCheckSAPHANASystemType == "SELECT VALUE FROM M_INIFILE_CONTENTS"
hdbGetNameServerhost == "SELECT HOST FROM SYS.M_SERVICES"
hdbGetHANADataVolumeAndHosts == "SELECT HOST, STORAGE_ID, PATH, KEY, VALUE FROM SYS.M_ATTACHED_STORAGES"
hdbPrepareStorageSnapshot == "BACKUP DATA FOR FULL SYSTEM CREATE SNAPSHOT"
hdbRetrieveStorageSnapshotID == "SELECT BACKUP_ID, COMMENT FROM M_BACKUP_CATALOG"
hdbConfirmStorageSnapshot == "BACKUP DATA FOR FULL SYSTEM CLOSE SNAPSHOT SUCCESSFUL"
hdbAbandonStorageSnapshot == "BACKUP DATA FOR FULL SYSTEM CLOSE SNAPSHOT UNSUCCESSFUL"

\* The shell commands of lines 117, 121, 135 and 142, and the array request
\* of line 155.
get_volumemountpoint_command == "df -h | grep"
get_volumeserialno_command == "udevadm info --query=all"
fsfreeze_freeze == "/sbin/fsfreeze --freeze"
fsfreeze_unfreeze == "/sbin/fsfreeze --unfreeze"
array_create_snapshot == "array.create_snapshot"

----------------------------------------------------------------------------
(* What the database can answer.                                           *)

HostNames == {"node1", "node2"}
MountPaths == {"/hana/data/mnt1", "/hana/data/mnt2"}

\* An answer of dbapi: connect or execute raised, or a list of rows.
Raised == [raised |-> TRUE, rows |-> <<>>]
Rows(r) == [raised |-> FALSE, rows |-> r]

\* Answers to the mode query: one VALUE column.
ModeResponses ==
    {Raised, Rows(<<>>), Rows(<< <<"multidb">> >>), Rows(<< <<"singledb">> >>)}

\* Answers to the name-server query: one HOST column.
NameServerResponses ==
    {Raised, Rows(<<>>)} \cup {Rows(<< <<h>> >>) : h \in HostNames}

\* A row of M_ATTACHED_STORAGES: HOST, STORAGE_ID, PATH, KEY, VALUE.
StorageRow(h, m) == <<h, "storage_id", m, "WWID", "wwid">>
StorageRows == {StorageRow(h, m) : h \in HostNames, m \in MountPaths}

\* Lists of at most MaxVols different rows.
RowLists ==
    UNION {{s \in [1..n -> StorageRows] :
              \A i, j \in 1..n : i # j => s[i] # s[j]} : n \in 0..MaxVols}

VolumeResponses == {Raised} \cup {Rows(s) : s \in RowLists}

----------------------------------------------------------------------------
VARIABLES
    pc,             \* the statement the run is at
    hostaddress,    \* the global of line 50, rebound at line 205
    multidb,        \* the local of get_saphana_data_volume_and_hosts, line 202
    hosts_and_vols, \* the module-level name of line 221
    bound,          \* the module-level names of the try block bound so far
    exc,            \* the exception the try block raised, "none" if none
    uncaught,       \* the exception that ended the process, "none" if none
    calls,          \* every call made to an external system, with its answer
    fn_in,          \* a function taken alone: the function and its arguments
    fn_out          \* how it ended and what it did, "pending" until it has run

vars == <<pc, hostaddress, multidb, hosts_and_vols, bound, exc, uncaught, calls,
          fn_in, fn_out>>

\* The variables of the run of the script, and those of a function taken alone.
run_vars == <<pc, hostaddress, multidb, hosts_and_vols, bound, exc, uncaught, calls>>
fn_vars == <<fn_in, fn_out>>

----------------------------------------------------------------------------
(* execute_saphana_command, lines 71-88.                                   *)

\* Line 72: "3" + str(instancenumber) + str(port_number).
portvalue(port_number) == <<"3", instancenumber, port_number>>

\* The call as it reaches the database: a new connection to the current
\* hostaddress on portvalue (lines 73-76), one statement (line 79).  Line 77
\* tests the bound method connection.isconnected without calling it, which is
\* always true, so lines 87-88 are never executed; every statement the script
\* reaches here is a SELECT, whose cursor.description is set, so the rows are
\* returned (lines 81-84).
execute_saphana_command(command, port_number, resp) ==
    [command |-> command,
     address |-> hostaddress,
     port    |-> portvalue(port_number),
     raised  |-> resp.raised,
     rows    |-> resp.rows]

----------------------------------------------------------------------------
(* check_saphana_system_type, lines 92-101, on the answer to its query:    *)
(* the exception it ends with ("none" when it returns) and what it returns.*)

\* A variant that tests the list before indexing it and takes an empty answer
\* for "not multidb".
check_saphana_system_type_guarded(resp) ==
    IF resp.raised THEN [exc |-> "DatabaseError", multidb |-> FALSE]
    ELSE IF resp.rows = <<>> THEN [exc |-> "none", multidb |-> FALSE]
    ELSE [exc |-> "none",
          multidb |-> \E i \in DOMAIN resp.rows[1] : resp.rows[1][i] = "multidb"]

check_saphana_system_type(resp) ==
    IF resp.raised THEN [exc |-> "DatabaseError", multidb |-> FALSE]
    \* line 96: systemtype[0] of an empty list
    ELSE IF resp.rows = <<>> THEN [exc |-> "IndexError", multidb |-> FALSE]
    \* line 96: "multidb" in systemtype[0]
    ELSE [exc |-> "none",
          multidb |-> \E i \in DOMAIN resp.rows[1] : resp.rows[1][i] = "multidb"]

(* get_saphana_nameserver_host, lines 212-216, on the answer to its query. *)
get_saphana_nameserver_host(resp) ==
    IF resp.raised THEN [exc |-> "DatabaseError", host |-> ""]
    \* line 215: nameserver_host[0] of an empty list
    ELSE IF resp.rows = <<>> THEN [exc |-> "IndexError", host |-> ""]
    ELSE [exc |-> "none", host |-> resp.rows[1][1]]

----------------------------------------------------------------------------
Init ==
    /\ pc = "line202"
    /\ hostaddress = <<hostaddress0>>
    /\ multidb = FALSE
    /\ hosts_and_vols = <<>>
    /\ bound = {}
    /\ exc = "none"
    /\ uncaught = "none"
    /\ calls = <<>>
    /\ fn_in = [fn |-> "none"]
    /\ fn_out = [outcome |-> "none"]

(* Line 221 -> line 202: the mode query of get_saphana_data_volume_and_hosts, *)
(* always on the configured port (line 95).                                *)
DiscoverSystemType ==
    /\ pc = "line202"
    /\ \E resp \in ModeResponses :
         LET r == check_saphana_system_type(resp) IN
         /\ calls' = Append(calls,
                execute_saphana_command(hdbsqlCheckSAPHANASystemType, port, resp))
         /\ IF r.exc # "none"
            THEN /\ exc' = r.exc
                 /\ pc' = "line240"
                 /\ UNCHANGED multidb
            ELSE /\ multidb' = r.multidb
                 /\ pc' = IF r.multidb THEN "line205" ELSE "line208"
                 /\ UNCHANGED exc
    /\ UNCHANGED <<hostaddress, hosts_and_vols, bound, uncaught>>
    /\ UNCHANGED fn_vars

(* Lines 204-205: in multidb mode the global hostaddress is rebound to the *)
(* name-server host; the lookup runs on the configured port (line 214).    *)
DiscoverNameServerHost ==
    /\ pc = "line205"
    /\ \E resp \in NameServerResponses :
         LET r == get_saphana_nameserver_host(resp) IN
         /\ calls' = Append(calls,
                execute_saphana_command(hdbGetNameServerhost, port, resp))
         /\ IF r.exc # "none"
            THEN /\ exc' = r.exc
                 /\ pc' = "line240"
                 /\ UNCHANGED hostaddress
            ELSE /\ hostaddress' = <<r.host, ".", domainname>>
                 /\ pc' = "line206"
                 /\ UNCHANGED exc
    /\ UNCHANGED <<multidb, hosts_and_vols, bound, uncaught>>
    /\ UNCHANGED fn_vars

(* Lines 206 and 208, then the return of line 209 and the assignment of    *)
(* line 221.                                                               *)
get_saphana_data_volume_and_hosts ==
    /\ pc \in {"line206", "line208"}
    /\ \E resp \in VolumeResponses :
         /\ calls' = Append(calls,
                execute_saphana_command(hdbGetHANADataVolumeAndHosts,
                    IF pc = "line206" THEN systemdb_port ELSE port, resp))
         /\ IF resp.raised
            THEN /\ exc' = "DatabaseError"
                 /\ pc' = "line240"
                 /\ UNCHANGED <<hosts_and_vols, bound>>
            ELSE /\ hosts_and_vols' = resp.rows
                 /\ bound' = bound \cup {"hosts_and_vols"}
                 /\ pc' = "line222"
                 /\ UNCHANGED exc
    /\ UNCHANGED <<hostaddress, multidb, uncaught>>
    /\ UNCHANGED fn_vars

(* Line 222 -> lines 160-174.  Lines 161-163 bind locals; line 164 applies *)
(* unary + to the str dt_string and raises TypeError.  Lines 165-174 (the  *)
(* mode check, the CREATE SNAPSHOT command, the catalog lookup, the        *)
(* return) are not executed and line 222 binds nothing.                    *)
prepare_saphana_storage_snapshot ==
    /\ pc = "line222"
    /\ exc' = "TypeError"
    /\ pc' = "line240"
    /\ UNCHANGED <<hostaddress, multidb, hosts_and_vols, bound, uncaught, calls>>
    /\ UNCHANGED fn_vars

(* Lines 240-243.  Line 241 reads saphana_backup_id: unbound, it raises    *)
(* NameError out of the handler.  Bound, lines 242-243 call                *)
(* abandon_saphana_storage_snapshot, whose line 190 applies unary + to a   *)
(* str and raises TypeError before any command is issued.                  *)
except_handler ==
    /\ pc = "line240"
    /\ uncaught' = IF "saphana_backup_id" \in bound THEN "TypeError" ELSE "NameError"
    /\ pc' = "exit"
    /\ UNCHANGED <<hostaddress, multidb, hosts_and_vols, bound, exc, calls>>
    /\ UNCHANGED fn_vars

Next ==
    \/ DiscoverSystemType
    \/ DiscoverNameServerHost
    \/ get_saphana_data_volume_and_hosts
    \/ prepare_saphana_storage_snapshot
    \/ except_handler

Spec == Init /\ [][Next]_vars

----------------------------------------------------------------------------
(* Functions taken alone.  The statements after line 222 are not reached   *)
(* by any run, but the functions they call, and the expression of lines    *)
(* 225-229, have a behaviour of their own on every argument.  FnSpec draws *)
(* the arguments in its initial state and applies the function once.       *)
(* A str is a sequence of one-character strings.                           *)

\* Longest mount path and longest serial number drawn, in characters.
MaxPathLen == 4
MaxSerialLen == 2
\* Largest number of volumes the array lists.
MaxArrayVols == 2

\* All sequences over `alphabet` of length lo..hi.
Strs(alphabet, lo, hi) == UNION {[1..n -> alphabet] : n \in lo..hi}

\* str.replace(old, "") for a one-character old (line 228).
replace(str, old) == SelectSeq(str, LAMBDA c : c # old)

\* str.lower() (line 152), on the letters the model draws.
lower(str) ==
    [i \in DOMAIN str |-> CASE str[i] = "A" -> "a" [] str[i] = "B" -> "b"
                            [] OTHER -> str[i]]

\* x in y for two str (line 153): x occurs in y as a substring.
str_in(x, y) ==
    \E k \in 0..Len(y) : k + Len(x) <= Len(y) /\ SubSeq(y, k + 1, k + Len(x)) = x

\* The literals of line 229 and the domainname of line 51, as characters.
SAPHANA_prefix == <<"S", "A", "P", "H", "A", "N", "A", "-">>
domainname_chars ==
    <<"p", "u", "r", "e", "d", "o", "e", "s", ".", "l", "o", "c", "a", "l">>

(* Lines 225-229: the suffix built for the row (host_column, mount_point)  *)
(* under the backup id.                                                    *)
vol_snap_suffix(host_column, mount_point, saphana_backup_id) ==
    LET host == host_column \o domainname_chars                \* line 225
        mount_point_parse == replace(mount_point, "/")          \* line 228
    IN  SAPHANA_prefix \o host \o <<"-">> \o mount_point_parse
            \o <<"-">> \o saphana_backup_id                     \* line 229

(* create_flasharray_volume_snapshot, lines 147-157, on the listing the    *)
(* array returns: the volumes it snapshots and what it returns.  The loop  *)
(* of line 150 from index i on.                                            *)
RECURSIVE scan_volumes(_, _, _, _)
scan_volumes(volumes, i, serialnumber, create_raises) ==
    IF i > Len(volumes)
    THEN \* the loop ends and the function falls off its end: it returns None
         [outcome |-> "returned", value |-> <<"None">>, snapshots |-> <<>>]
    ELSE LET volname == volumes[i].name                         \* line 151
             volserial == lower(volumes[i].serial)              \* line 152
             found == str_in(volserial, serialnumber)           \* line 153
         IN  IF found
             THEN IF create_raises
                  THEN [outcome |-> "raised", value |-> <<"PureError">>,
                        snapshots |-> <<>>]
                  ELSE [outcome |-> "returned",                 \* lines 155-157
                        value |-> <<"snapshot of ", volname>>,
                        snapshots |-> <<volname>>]
             ELSE scan_volumes(volumes, i + 1, serialnumber, create_raises)

create_flasharray_volume_snapshot(listing, serialnumber, create_raises) ==
    IF listing.raised                                           \* lines 148-149
    THEN [outcome |-> "raised", value |-> <<"PureError">>, snapshots |-> <<>>]
    ELSE scan_volumes(listing.volumes, 1, serialnumber, create_raises)

(* freeze_filesystem, lines 133-138: the command it sends and how it ends. *)
(* The exit status of the remote command is never read: stdout is drained  *)
(* (line 137) and the function returns None.                               *)
freeze_filesystem(connect_raises, datavolume_mount, exit_status) ==
    IF connect_raises                                           \* line 134
    THEN [outcome |-> "raised", value |-> <<"SSHException">>, commands |-> <<>>]
    ELSE [outcome |-> "returned", value |-> <<"None">>,
          commands |-> << <<fsfreeze_freeze>> \o datavolume_mount >>]  \* line 135

----------------------------------------------------------------------------
(* The arguments FnSpec draws.                                             *)

\* HOST column values and marker ids.
HostColumns == {<<"n", "1">>, <<"n", "2">>}
BackupIds == {<<"4", "2">>}

\* Absolute, normalised mount paths: a leading "/", no "//", no trailing "/".
PathStrs ==
    {m \in Strs({"/", "a", "b"}, 2, MaxPathLen) :
        /\ m[1] = "/"
        /\ m[Len(m)] # "/"
        /\ \A i \in 1..(Len(m) - 1) : ~(m[i] = "/" /\ m[i + 1] = "/")}

\* Serial numbers as the array reports them and as udevadm reports them.
SerialStrs == Strs({"A", "a", "1"}, 1, MaxSerialLen)

\* What array.list_volumes() returns: volume k is named "vol<k>".
VolumeName(k) == <<"vol", k>>
Listings ==
    {[raised |-> TRUE, volumes |-> <<>>]} \cup
    {[raised |-> FALSE,
      volumes |-> [k \in DOMAIN ser |-> [name |-> VolumeName(k), serial |-> ser[k]]]] :
        ser \in UNION {[1..n -> SerialStrs] : n \in 0..MaxArrayVols}}

SuffixArgs ==
    [fn : {"vol_snap_suffix"}, host1 : HostColumns, mount1 : PathStrs,
     host2 : HostColumns, mount2 : PathStrs, id : BackupIds]

SnapshotArgs ==
    [fn : {"create_flasharray_volume_snapshot"}, listing : Listings,
     serialnumber : SerialStrs, create_raises : BOOLEAN]

FreezeArgs ==
    [fn : {"freeze_filesystem"}, connect_raises : BOOLEAN,
     mount : {<<"/", "a">>, <<"/", "b">>}, exit_status : {0, 1}]

FnInit ==
    /\ pc = "function"
    /\ hostaddress = <<hostaddress0>>
    /\ multidb = FALSE
    /\ hosts_and_vols = <<>>
    /\ bound = {}
    /\ exc = "none"
    /\ uncaught = "none"
    /\ calls = <<>>
    /\ fn_in \in SuffixArgs \cup SnapshotArgs \cup FreezeArgs
    /\ fn_out = [outcome |-> "pending"]

ApplyVolSnapSuffix ==
    /\ fn_out.outcome = "pending"
    /\ fn_in.fn = "vol_snap_suffix"
    /\ fn_out' = [outcome |-> "returned",
                  first  |-> vol_snap_suffix(fn_in.host1, fn_in.mount1, fn_in.id),
                  second |-> vol_snap_suffix(fn_in.host2, fn_in.mount2, fn_in.id)]
    /\ UNCHANGED <<run_vars, fn_in>>

ApplyCreateSnapshot ==
    /\ fn_out.outcome = "pending"
    /\ fn_in.fn = "create_flasharray_volume_snapshot"
    /\ fn_out' = create_flasharray_volume_snapshot(
                     fn_in.listing, fn_in.serialnumber, fn_in.create_raises)
    /\ UNCHANGED <<run_vars, fn_in>>

ApplyFreeze ==
    /\ fn_out.outcome = "pending"
    /\ fn_in.fn = "freeze_filesystem"
    /\ fn_out' = freeze_filesystem(fn_in.connect_raises, fn_in.mount, fn_in.exit_status)
    /\ UNCHANGED <<run_vars, fn_in>>

FnNext == ApplyVolSnapSuffix \/ ApplyCreateSnapshot \/ ApplyFreeze

FnSpec == FnInit /\ [][FnNext]_vars

----------------------------------------------------------------------------
(* Reading the log of calls.                                               *)

Count(command) == Cardinality({i \in DOMAIN calls : calls[i].command = command})

DiscoveryCommands ==
    {hdbsqlCheckSAPHANASystemType, hdbGetNameServerhost, hdbGetHANADataVolumeAndHosts}

MarkerCommands ==
    {hdbPrepareStorageSnapshot, hdbRetrieveStorageSnapshotID,
     hdbConfirmStorageSnapshot, hdbAbandonStorageSnapshot}

HostAndArrayCommands ==
    {get_volumemountpoint_command, get_volumeserialno_command,
     fsfreeze_freeze, fsfreeze_unfreeze, array_create_snapshot}

\* Call i is a discovery query that made discovery fail: the database raised,
\* or a query whose first row the code indexes returned no rows.
DiscoveryFailedAt(i) ==
    /\ calls[i].command \in DiscoveryCommands
    /\ \/ calls[i].raised
       \/ /\ calls[i].command \in {hdbsqlCheckSAPHANASystemType, hdbGetNameServerhost}
          /\ calls[i].rows = <<>>

\* The run is over and discovery had returned a topology (line 221 bound it).
EndedWithTopology == pc = "exit" /\ "hosts_and_vols" \in bound

----------------------------------------------------------------------------
(* Facts about every run, used to settle the claims below: no run issues   *)
(* the CREATE SNAPSHOT command or any later command, and every run ends    *)
(* with the NameError of line 241.                                         *)

MarkerNeverOpened == \A c \in MarkerCommands : Count(c) = 0

NoHostOrArrayCall == \A c \in HostAndArrayCommands : Count(c) = 0

EveryRunEndsInNameError == pc = "exit" => uncaught = "NameError"

----------------------------------------------------------------------------
(* C2: for every topology with N >= 0 volumes, a run issues the marker-open *)
(* (CREATE SNAPSHOT) command exactly once and exactly one terminal          *)
(* disposition command in total, confirm or abandon.                        *)
C2_OneOpenOneDisposition ==
    EndedWithTopology =>
        /\ Count(hdbPrepareStorageSnapshot) = 1
        /\ Count(hdbConfirmStorageSnapshot) + Count(hdbAbandonStorageSnapshot) = 1

(* C7: if discovery returns zero volumes, the run opens the marker and      *)
(* confirms it at once: no serial lookup, freeze, snapshot or unfreeze is   *)
(* issued, the run does not crash, and the marker is not left open.         *)
C7_EmptyTopologyConfirms ==
    (EndedWithTopology /\ hosts_and_vols = <<>>) =>
        /\ uncaught = "none"
        /\ Count(hdbPrepareStorageSnapshot) = 1
        /\ Count(hdbConfirmStorageSnapshot) = 1
        /\ Count(hdbAbandonStorageSnapshot) = 0
        /\ \A c \in HostAndArrayCommands : Count(c) = 0

(* C9: if topology discovery fails (the mode query returns no rows, or a    *)
(* discovery query raises), the run stops there: the failing query is the   *)
(* last call of the run, line 222 is never executed, and no marker-open,    *)
(* freeze, snapshot, confirm or abandon command is issued.                  *)
C9_DiscoveryFailureStopsRun ==
    \A i \in DOMAIN calls : DiscoveryFailedAt(i) =>
        /\ i = Len(calls)
        /\ pc \in {"line240", "exit"}
        /\ exc \in {"DatabaseError", "IndexError"}
        /\ \A c \in MarkerCommands \cup HostAndArrayCommands : Count(c) = 0

\* A run that ended after the mode query returned no rows.
C9_Witness ==
    /\ pc = "exit"
    /\ Len(calls) = 1
    /\ calls[1].command = hdbsqlCheckSAPHANASystemType
    /\ ~calls[1].raised
    /\ calls[1].rows = <<>>

----------------------------------------------------------------------------
\* The two ports a connection can go to, written out: "3" + "00" + selector.
TenantPortValue == <<"3", "00", "15">>
SystemDbPortValue == <<"3", "00", "13">>

\* Call i is the mode query and its answer says multidb / does not.
ModeFoundAt(i, m) ==
    /\ calls[i].command = hdbsqlCheckSAPHANASystemType
    /\ ~calls[i].raised
    /\ calls[i].rows # <<>>
    /\ m = (\E k \in DOMAIN calls[i].rows[1] : calls[i].rows[1][k] = "multidb")

(* C11 as claimed: once discovery has found the mode to be MultiTenant,     *)
(* every database command issued afterwards (the name-server lookup         *)
(* included) uses port selector 13 and none the configured tenant port; in  *)
(* SingleTenant mode every database command uses the tenant port.           *)
C11_AllLaterCommandsOn13 ==
    \A i, j \in DOMAIN calls : (i < j) =>
        /\ ModeFoundAt(i, TRUE) => calls[j].port = SystemDbPortValue
        /\ ModeFoundAt(i, FALSE) => calls[j].port = TenantPortValue

(* C11 amended: in MultiTenant mode the name-server lookup and the mode     *)
(* checks use the configured tenant port and every other database command   *)
(* issued after the mode is known uses port selector 13; in SingleTenant    *)
(* mode every database command uses the configured tenant port.             *)
C11_PortSelection ==
    /\ \A j \in DOMAIN calls :
         calls[j].command \in {hdbsqlCheckSAPHANASystemType, hdbGetNameServerhost}
             => calls[j].port = TenantPortValue
    /\ \A i, j \in DOMAIN calls : (i < j) =>
         /\ (/\ ModeFoundAt(i, TRUE)
             /\ calls[j].command \notin
                    {hdbsqlCheckSAPHANASystemType, hdbGetNameServerhost})
                => calls[j].port = SystemDbPortValue
         /\ ModeFoundAt(i, FALSE) => calls[j].port = TenantPortValue

\* A MultiTenant run that has issued the name-server lookup and then the
\* attached-storage query.
C11_Witness ==
    /\ Len(calls) = 3
    /\ ModeFoundAt(1, TRUE)
    /\ calls[2].command = hdbGetNameServerhost
    /\ calls[3].command = hdbGetHANADataVolumeAndHosts

(* C18: when the run fails before a marker id was obtained, the handler     *)
(* issues no abandon command and does not itself raise a secondary error    *)
(* from reading the unset marker id.                                        *)
C18_HandlerSeesNoMarker ==
    (pc = "exit" /\ "saphana_backup_id" \notin bound) =>
        /\ Count(hdbAbandonStorageSnapshot) = 0
        /\ uncaught = "none"

----------------------------------------------------------------------------
(* Claims about functions taken alone, stated on FnSpec.                    *)

SuffixApplied == fn_in.fn = "vol_snap_suffix" /\ fn_out.outcome = "returned"

SnapshotApplied ==
    fn_in.fn = "create_flasharray_volume_snapshot" /\ fn_out.outcome # "pending"

FreezeApplied == fn_in.fn = "freeze_filesystem" /\ fn_out.outcome # "pending"

\* The volumes of the listing whose serial equals the supplied one ignoring
\* letter case, and those the test of line 153 accepts.
EqualIgnoringCase ==
    {i \in DOMAIN fn_in.listing.volumes :
        lower(fn_in.listing.volumes[i].serial) = lower(fn_in.serialnumber)}

AcceptedByLine153 ==
    {i \in DOMAIN fn_in.listing.volumes :
        str_in(lower(fn_in.listing.volumes[i].serial), fn_in.serialnumber)}

(* C12: for two different (host, mount path) pairs under the same marker    *)
(* id, the generated snapshot suffixes differ.                              *)
C12_SuffixInjective ==
    (/\ SuffixApplied
     /\ <<fn_in.host1, fn_in.mount1>> # <<fn_in.host2, fn_in.mount2>>)
        => fn_out.first # fn_out.second

(* C13: when no volume of the array matches the supplied serial, the        *)
(* snapshot operation ends in an error and creates no snapshot; it never    *)
(* returns an empty or undefined result.                                    *)
C13_NoMatchIsError ==
    (/\ SnapshotApplied
     /\ ~fn_in.listing.raised
     /\ EqualIgnoringCase = {}
     /\ AcceptedByLine153 = {})
        => /\ fn_out.outcome = "raised"
           /\ fn_out.snapshots = <<>>

(* C14: the snapshot operation snapshots exactly one volume per call, the   *)
(* first of the listing whose serial equals the supplied serial ignoring    *)
(* letter case, whatever the case of the supplied serial, and never a       *)
(* volume whose serial differs from it.                                     *)
C14_FirstMatchIgnoringCase ==
    (/\ SnapshotApplied
     /\ ~fn_in.listing.raised
     /\ ~fn_in.create_raises)
        => IF EqualIgnoringCase = {}
           THEN fn_out.snapshots = <<>>
           ELSE LET first == CHOOSE i \in EqualIgnoringCase :
                                 \A j \in EqualIgnoringCase : i <= j
                IN  fn_out.snapshots = <<fn_in.listing.volumes[first].name>>

(* C17: if the remote freeze command ends with a non-zero exit status, the  *)
(* freeze operation reports an error instead of succeeding silently.        *)
C17_FreezeFailureReported ==
    (FreezeApplied /\ ~fn_in.connect_raises /\ fn_in.exit_status # 0)
        => fn_out.outcome = "raised"

====
